---- MODULE Spec2Model ----
(***************************************************************************)
(* A model of the slog-console handler (package slogconsole):              *)
(* ConsoleHandler (New, Enabled, Handle, WithGroup, WithAttrs), its        *)
(* composer, the value renderer, the BoolVar flag and the scratch buffer   *)
(* pool.                                                                   *)
(*                                                                         *)
(* Text is modelled byte by byte: a Go string or []byte is a sequence of   *)
(* one-byte tokens.  A token is the character itself ("a", " ", "=", the   *)
(* newline) or, for bytes with no printable form, a name: "ESC" is 0x1B,   *)
(* "DEL" is 0x7F, "NBSP" is the rune U+00A0, "BAD" is the invalid byte     *)
(* 0xFF and "e'" is the printable rune U+00E9.                             *)
(***************************************************************************)
EXTENDS Integers, Sequences, FiniteSets, Bags, TLC

----------------------------------------------------------------------------
(* Bytes and strings                                                       *)

NL  == "\n"
SP  == " "
DQ  == "\""
BSL == "\\"
ESC == "ESC"
DEL == "DEL"

Digits == <<"0", "1", "2", "3", "4", "5", "6", "7", "8", "9">>

\* ASCII control characters of the model's alphabet (0x00-0x1F)
ControlBytes == {NL, ESC}

\* Runes >= utf8.RuneSelf of the model's alphabet
NonAscii == {"e'", "NBSP", "BAD"}

RECURSIVE Concat(_)
Concat(ss) == IF ss = <<>> THEN <<>> ELSE Head(ss) \o Concat(Tail(ss))

StartsWith(s, p) == Len(p) <= Len(s) /\ SubSeq(s, 1, Len(p)) = p

Contains(s, p) == \E i \in 0..(Len(s) - Len(p)) : SubSeq(s, i + 1, i + Len(p)) = p

CountByte(s, b) == Cardinality({i \in 1..Len(s) : s[i] = b})

\* strconv.AppendInt(dst, n, 10), for the magnitudes of the model
RECURSIVE Utoa(_)
Utoa(n) == IF n < 10 THEN <<Digits[n + 1]>> ELSE Utoa(n \div 10) \o <<Digits[(n % 10) + 1]>>

Itoa(n) == IF n < 0 THEN <<"-">> \o Utoa(0 - n) ELSE Utoa(n)

----------------------------------------------------------------------------
(* Color codes                                                             *)

ConsoleColorReset  == <<ESC, "[", "0", "m">>
ConsoleColorRed    == <<ESC, "[", "3", "1", "m">>
ConsoleColorGreen  == <<ESC, "[", "3", "2", "m">>
ConsoleColorYellow == <<ESC, "[", "3", "3", "m">>
ConsoleColorWhite  == <<ESC, "[", "9", "7", "m">>

----------------------------------------------------------------------------
(* Quoting                                                                 *)

\* safeSet[b]: every ASCII byte except the control characters, the space,
\* the double quote and the backslash; the entry of 0x7F is true.
safeSet(b) == b \notin ControlBytes /\ b \notin {SP, DQ, BSL}

\* unicode.IsSpace / unicode.IsPrint / utf8.RuneError on the non-ASCII runes
RuneIsSpace(r) == r = "NBSP"
RuneIsPrint(r) == r = "e'"
RuneIsError(r) == r = "BAD"

\* The test of a byte without the exemption of the backslash
needsQuotingByteBackslash(b) ==
    IF b \notin NonAscii
    THEN b = SP \/ b = "=" \/ ~safeSet(b)
    ELSE RuneIsError(b) \/ RuneIsSpace(b) \/ ~RuneIsPrint(b)

needsQuotingByte(b) ==
    IF b \notin NonAscii
    THEN b # BSL /\ (b = SP \/ b = "=" \/ ~safeSet(b))
    ELSE RuneIsError(b) \/ RuneIsSpace(b) \/ ~RuneIsPrint(b)

needsQuoting(s) ==
    \/ Len(s) = 0
    \/ \E i \in 1..Len(s) : needsQuotingByte(s[i])

\* strconv.AppendQuote, rune by rune: the quote and the backslash are
\* escaped with a backslash, printable runes (the space among them) are
\* kept, the others are written as escapes.
QuoteRune(r) ==
    CASE r = DQ     -> <<BSL, DQ>>
      [] r = BSL    -> <<BSL, BSL>>
      [] r = NL     -> <<BSL, "n">>
      [] r = ESC    -> <<BSL, "x", "1", "b">>
      [] r = DEL    -> <<BSL, "x", "7", "f">>
      [] r = "NBSP" -> <<BSL, "u", "0", "0", "a", "0">>
      [] r = "BAD"  -> <<BSL, "x", "f", "f">>
      [] OTHER      -> <<r>>

RECURSIVE QuoteRunes(_)
QuoteRunes(s) == IF s = <<>> THEN <<>> ELSE QuoteRune(Head(s)) \o QuoteRunes(Tail(s))

AppendQuote(dst, s) == dst \o <<DQ>> \o QuoteRunes(s) \o <<DQ>>

appendString(dst, str) ==
    IF needsQuoting(str) THEN AppendQuote(dst, str) ELSE dst \o str

\* The key alone, whatever the prefix
mergePrefWithKeyNoPrefix(pref, key) == key

\* The prefix joined only when both sides are non-empty, else the key
mergePrefWithKeyElseKey(pref, key) ==
    IF Len(pref) > 0 /\ Len(key) > 0 THEN pref \o <<".">> \o key ELSE key

mergePrefWithKey(pref, key) ==
    IF Len(pref) > 0
    THEN IF Len(key) > 0 THEN pref \o <<".">> \o key ELSE pref
    ELSE key

----------------------------------------------------------------------------
(* slog values and attributes                                              *)

StringValue(s)   == [kind |-> "String", s |-> s]
Int64Value(n)    == [kind |-> "Int64", n |-> n]
Uint64Value(n)   == [kind |-> "Uint64", n |-> n]
BoolValue(b)     == [kind |-> "Bool", b |-> b]
DurationValue(n) == [kind |-> "Duration", n |-> n]
TimeValue(t)     == [kind |-> "Time", t |-> t]
GroupValue(as)   == [kind |-> "Group", attrs |-> as]
\* A LogValuer whose LogValue method returns v
LogValuerValue(v) == [kind |-> "LogValuer", v |-> v]
\* An opaque value and the text fmt prints for it
AnyValue(text)   == [kind |-> "Any", nil |-> FALSE, text |-> text]
\* slog.Value{}: KindAny holding nil
ZeroValue        == [kind |-> "Any", nil |-> TRUE, text |-> <<"<", "n", "i", "l", ">">>]

Attr(key, val) == [key |-> key, val |-> val]
ZeroAttr       == Attr(<<>>, ZeroValue)

\* a.Equal(slog.Attr{})
IsZeroAttr(a) == a.key = <<>> /\ a.val.kind = "Any" /\ a.val.nil

\* Value.Resolve: LogValue is called until the result is no LogValuer
RECURSIVE Resolve(_)
Resolve(v) == IF v.kind = "LogValuer" THEN Resolve(v.v) ELSE v

----------------------------------------------------------------------------
(* Time and level texts                                                    *)

\* Options.TimeFormat after New: the default layout
defaultTimeFormat ==
    <<"2", "0", "0", "6", "-", "0", "1", "-", "0", "2", " ",
      "1", "5", ":", "0", "4", ":", "0", "5", ".", "0", "0", "0">>

\* tmFormat, the layout of Time.String, used for time values
timeStringFormat ==
    <<"2", "0", "0", "6", "-", "0", "1", "-", "0", "2", " ",
      "1", "5", ":", "0", "4", ":", "0", "5", ".", "9", "9", "9", "9", "9", "9", "9", "9", "9", " ",
      "-", "0", "7", "0", "0", " ", "M", "S", "T">>

\* Instants of the model: ZeroTime is time.Time{}, TestTime the instant
\* 2023-09-10 20:00:00 UTC
ZeroTime == 0
TestTime == 1

\* time.Time.AppendFormat(dst, layout) for the model's instants and layouts
AppendFormat(dst, tm, layout) ==
    dst \o
    (IF layout = defaultTimeFormat
     THEN (IF tm = ZeroTime
           THEN <<"0", "0", "0", "1", "-", "0", "1", "-", "0", "1", " ",
                  "0", "0", ":", "0", "0", ":", "0", "0", ".", "0", "0", "0">>
           ELSE <<"2", "0", "2", "3", "-", "0", "9", "-", "1", "0", " ",
                  "2", "0", ":", "0", "0", ":", "0", "0", ".", "0", "0", "0">>)
     ELSE (IF tm = ZeroTime
           THEN <<"0", "0", "0", "1", "-", "0", "1", "-", "0", "1", " ",
                  "0", "0", ":", "0", "0", ":", "0", "0", " ", "+", "0", "0", "0", "0", " ", "U", "T", "C">>
           ELSE <<"2", "0", "2", "3", "-", "0", "9", "-", "1", "0", " ",
                  "2", "0", ":", "0", "0", ":", "0", "0", " ", "+", "0", "0", "0", "0", " ", "U", "T", "C">>))

LevelDebug == 0 - 4
LevelInfo  == 0
LevelWarn  == 4
LevelError == 8

\* fmt.Sprintf("%s%+d", base, val), and base alone when val is 0
LevelStr(base, val) ==
    IF val = 0 THEN base
    ELSE base \o (IF val > 0 THEN <<"+">> \o Utoa(val) ELSE <<"-">> \o Utoa(0 - val))

\* slog.Level.String
LevelString(lv) ==
    IF lv < LevelInfo THEN LevelStr(<<"D", "E", "B", "U", "G">>, lv - LevelDebug)
    ELSE IF lv < LevelWarn THEN LevelStr(<<"I", "N", "F", "O">>, lv - LevelInfo)
    ELSE IF lv < LevelError THEN LevelStr(<<"W", "A", "R", "N">>, lv - LevelWarn)
    ELSE LevelStr(<<"E", "R", "R", "O", "R">>, lv - LevelError)

\* The StringLevel function of the package's example
ExampleStringLevel(lv) ==
    IF lv < LevelDebug THEN <<"[", "D", "]">> \o Itoa(lv)
    ELSE IF lv < LevelInfo THEN <<"[", "D", "]">>
    ELSE IF lv < LevelWarn THEN <<"[", "I", "]">>
    ELSE IF lv < LevelError THEN <<"[", "W", "]">>
    ELSE <<"[", "E", "]">>

----------------------------------------------------------------------------
(* Value renderer                                                          *)

appendValue(v, dst) ==
    CASE v.kind = "String"   -> appendString(dst, v.s)
      [] v.kind = "Int64"    -> dst \o Itoa(v.n)
      [] v.kind = "Uint64"   -> dst \o Utoa(v.n)
      [] v.kind = "Bool"     -> dst \o (IF v.b THEN <<"t", "r", "u", "e">>
                                               ELSE <<"f", "a", "l", "s", "e">>)
      [] v.kind = "Duration" -> dst \o Itoa(v.n) \o <<"s">>
      [] v.kind = "Time"     -> AppendFormat(dst, v.t, timeStringFormat)
      [] v.kind = "Group"    -> dst \o <<"[", "]">>
      [] v.kind = "Any"      -> dst \o v.text

----------------------------------------------------------------------------
(* State                                                                   *)

VARIABLES
    opts,      \* Options as copied into the handler by New (the same copy in every derived handler)
    goos,      \* runtime.GOOS
    colorize,  \* BoolVar.val, the flag Options.Colorize points to
    levelVar,  \* the slog.LevelVar Options.Level points to
    handlers,  \* the ConsoleHandler values that exist, by address
    origin,    \* for each handler, the call that created it
    mem,       \* the byte arrays that exist, by address
    bufs,      \* the scratch buffers (*buffer) that exist: the slice header of each
    pool,      \* bufPool: the bag of the scratch buffers put into the pool
    mu,        \* the mutexes that are locked
    th         \* the calls in progress, one per thread

vars == <<opts, goos, colorize, levelVar, handlers, origin, mem, bufs, pool, mu, th>>

\* A []byte is a slice header: the address of its array (0 for nil) and its length
NilSlice == [arr |-> 0, len |-> 0]

\* The bytes a slice shows ("?" where the model keeps no byte)
Bytes(sl) ==
    IF sl.arr = 0 THEN <<>>
    ELSE [i \in 1..sl.len |-> IF i <= Len(mem[sl.arr]) THEN mem[sl.arr][i] ELSE "?"]

\* The array of a scratch buffer whose slice has been set to content.  The
\* model keeps an array up to the length of the scratch slice: the bytes Go
\* leaves beyond it are bytes no slice of the program shows.
Overwrite(old, content) == content

----------------------------------------------------------------------------
(* Composer                                                                *)

\* newComposer(h) with the scratch buffer allocBuf returned: buf is the
\* buffer's content, h the handler, pref the composer's (never assigned)
\* key prefix.  ra lists the arguments of the ReplaceAttr calls made.
newComposer(h, content) == [buf |-> content, h |-> h, pref |-> <<>>, ra |-> <<>>]

bufLen(c) == Len(c.buf)

write(c, p) == [c EXCEPT !.buf = @ \o p]

writeString(c, s) == [c EXCEPT !.buf = @ \o s]

writeByte(c, b) == [c EXCEPT !.buf = Append(@, b)]

addSpace(c, add) == IF add THEN writeByte(c, SP) ELSE c

\* The ReplaceAttr function "drop": the zero Attr for key "x", else the attribute
DropReplaceAttr(groups, a) == IF a.key = <<"x">> THEN ZeroAttr ELSE a

\* The ReplaceAttr function "redact": the value of key "e" is replaced by the
\* string "*", any other attribute is returned as it is
RedactReplaceAttr(groups, a) ==
    IF a.key = <<"e">> THEN Attr(a.key, StringValue(<<"*">>)) ELSE a

optionalReplaceAttr(groups, a) ==
    CASE opts.ReplaceAttr = "nil"    -> a
      [] opts.ReplaceAttr = "drop"   -> DropReplaceAttr(groups, a)
      [] opts.ReplaceAttr = "redact" -> RedactReplaceAttr(groups, a)

optionalStringLevel(lv) ==
    IF opts.StringLevel = "nil" THEN LevelString(lv) ELSE ExampleStringLevel(lv)

RECURSIVE appendAttr(_, _, _), appendAttrs(_, _, _)

appendAttr(c, a0, keyPref0) ==
    LET a1 == optionalReplaceAttr(c.h.groups, a0)
        c1 == IF opts.ReplaceAttr = "nil" THEN c
              ELSE [c EXCEPT !.ra = Append(@, [groups |-> c.h.groups, attr |-> a0])]
        a  == [a1 EXCEPT !.val = Resolve(a1.val)]
        keyPref == IF Len(keyPref0) = 0 THEN c.h.prefix ELSE keyPref0
    IN  IF IsZeroAttr(a) THEN c1
        ELSE IF a.val.kind = "Group"
        THEN IF Len(a.val.attrs) = 0 THEN c1
             ELSE appendAttrs(c1, a.val.attrs, mergePrefWithKey(keyPref, a.key))
        ELSE LET c2 == addSpace(c1, bufLen(c1) > 0)
                 c3 == writeString(c2, mergePrefWithKey(keyPref, a.key))
                 c4 == writeByte(c3, "=")
             IN  [c4 EXCEPT !.buf = appendValue(a.val, @)]

\* for _, a := range attrs { appendAttr(a, keyPref) }
appendAttrs(c, attrs, keyPref) ==
    IF attrs = <<>> THEN c
    ELSE appendAttrs(appendAttr(c, Head(attrs), keyPref), Tail(attrs), keyPref)

\* The colors with each bracket closed at its upper end
LevelColorInclusive(lv) ==
    IF lv <= LevelInfo THEN ConsoleColorWhite
    ELSE IF lv <= LevelWarn THEN ConsoleColorGreen
    ELSE IF lv <= LevelError THEN ConsoleColorYellow
    ELSE ConsoleColorRed

LevelColor(lv) ==
    IF lv < LevelInfo THEN ConsoleColorWhite
    ELSE IF lv < LevelWarn THEN ConsoleColorGreen
    ELSE IF lv < LevelError THEN ConsoleColorYellow
    ELSE ConsoleColorRed

\* appendLevel without the test of the flag
appendLevelFlagIgnored(c, lv, flag) ==
    LET lvStr == optionalStringLevel(lv)
        c1    == addSpace(c, Len(c.buf) > 0)
    IN  IF goos = "windows" THEN writeString(c1, lvStr)
        ELSE writeString(writeString(c1, LevelColor(lv)), lvStr \o ConsoleColorReset)

\* flag is what Colorize.Bool() returned to this call
appendLevel(c, lv, flag) ==
    LET lvStr == optionalStringLevel(lv)
        color == flag /\ goos # "windows"
        c1    == addSpace(c, Len(c.buf) > 0)
    IN  IF ~color THEN writeString(c1, lvStr)
        ELSE writeString(writeString(c1, LevelColor(lv)), lvStr \o ConsoleColorReset)

appendTime(c, tm) ==
    IF tm = ZeroTime /\ opts.DropTime THEN c
    ELSE [c EXCEPT !.buf = AppendFormat(@, tm, opts.TimeFormat)]

\* runtime.CallersFrames([]uintptr{pc}).Next(): the zero Frame for pc 0,
\* else the frame of the call site
FrameOf(pc) == IF pc = 0 THEN [File |-> <<>>, Line |-> 0]
               ELSE [File |-> <<"f", ".", "g", "o">>, Line |-> 7]

SourceKey == <<"s", "o", "u", "r", "c", "e">>

appendSource(c, pc) ==
    IF ~opts.AddSource \/ pc # 0 THEN c
    ELSE LET f == FrameOf(pc)
         IN  appendAttr(c, Attr(SourceKey, StringValue(f.File \o <<"=">> \o Itoa(f.Line))), c.pref)

\* r.Attrs(cm.walkAttrs)
walkAttrs(c, attrs) == appendAttrs(c, attrs, c.pref)

----------------------------------------------------------------------------
(* Scratch buffer pool                                                     *)

\* bufPool.New makes a buffer of this capacity
initialBufferSize == 1024

\* const maxBufferSize = 16 << 10
maxBufferSize == 16384

\* The number of bytes the token "BIG" of a message stands for: a run of
\* bytes that need no quoting, longer than maxBufferSize
BigLen == 20000

\* len(content) in bytes
ByteLen(content) ==
    Len(content) + (BigLen - 1) * Cardinality({i \in DOMAIN content : content[i] = "BIG"})

\* The capacity of a slice of capacity cap after append has brought it to
\* need bytes: append keeps the array while the bytes fit and moves to one
\* of at least need bytes otherwise (the lengths of the model are below
\* initialBufferSize or above maxBufferSize, so that the exact size of the
\* new array decides nothing)
GrowCap(cap, need) == IF need <= cap THEN cap ELSE need

\* The scratch buffers some call holds
Held == {th[t].buf : t \in DOMAIN th} \ {0}

\* The scratch buffers nothing refers to any more: the collector has them
Garbage == {b \in 1..Len(bufs) : b \notin Held /\ ~BagIn(b, pool)}

\* bufPool.New: a buffer of length 0 and capacity initialBufferSize over a
\* new array, at the address of a collected buffer when there is one
NewBuffer ==
    IF Garbage # {}
    THEN LET b == CHOOSE g \in Garbage : \A g2 \in Garbage : g <= g2
         IN  {[b    |-> b,
               bufs |-> [bufs EXCEPT ![b].len = 0, ![b].cap = initialBufferSize],
               mem  |-> [mem EXCEPT ![bufs[b].arr] = <<>>],
               pool |-> pool]}
    ELSE IF Len(bufs) < Cardinality(DOMAIN th)
    THEN {[b    |-> Len(bufs) + 1,
           bufs |-> Append(bufs, [arr |-> Len(mem) + 1, len |-> 0, cap |-> initialBufferSize]),
           mem  |-> Append(mem, <<>>),
           pool |-> pool]}
    ELSE {}

\* A Get that hands a pooled buffer out and leaves it in the pool
allocBufShared ==
    {[b |-> b, bufs |-> bufs, mem |-> mem, pool |-> pool] : b \in BagToSet(pool)}
    \cup NewBuffer

\* allocBuf: bufPool.Get() takes a buffer out of the pool, or has a new one
\* made by bufPool.New (sync.Pool may treat the pool as empty at any time).
\* Each outcome names the buffer b and the pool state after the call.
allocBuf ==
    {[b |-> b, bufs |-> bufs, mem |-> mem, pool |-> pool (-) SetToBag({b})] : b \in BagToSet(pool)}
    \cup NewBuffer

\* The bytes the slice sl shows in the memory of a
Bytes2(a, sl) == SubSeq(a.mem[sl.arr], 1, sl.len)

\* The scratch buffer b of allocation a after an operation left content in it
StoreBuf(a, content) ==
    [a EXCEPT !.mem[a.bufs[a.b].arr] = Overwrite(@, content),
              !.bufs[a.b].len = Len(content),
              !.bufs[a.b].cap = GrowCap(@, ByteLen(content))]

\* A free that puts the buffer back as it is
freeNoTruncate(a) ==
    IF a.bufs[a.b].cap <= maxBufferSize
    THEN [a EXCEPT !.pool = @ (+) SetToBag({a.b})]
    ELSE a

\* buffer.free on the buffer b of a: a buffer of capacity up to
\* maxBufferSize is cut to length 0 and put into the pool, a larger one is
\* left to the collector
free(a) ==
    IF a.bufs[a.b].cap <= maxBufferSize
    THEN [a EXCEPT !.mem[a.bufs[a.b].arr] = Overwrite(@, <<>>),
                   !.bufs[a.b].len = 0,
                   !.pool = @ (+) SetToBag({a.b})]
    ELSE a

----------------------------------------------------------------------------
(* Handler operations                                                      *)

Threads(n) == 1..n

\* A record of the model: its time, level, message, program counter and attributes
Record(tm, lv, msg, pc, attrs) ==
    [time |-> tm, level |-> lv, msg |-> msg, pc |-> pc, attrs |-> attrs]

NoRecord == Record(ZeroTime, 0, <<>>, 0, <<>>)

\* A thread that is in no call
IdleCall == [pc |-> "idle", op |-> "none", h |-> 0, r |-> NoRecord, arg |-> <<>>,
             buf |-> 0, gated |-> FALSE, thr |-> 0, flag |-> FALSE, nw |-> 0,
             err |-> "nil", ret |-> "none"]


\* New(w, opts): the options are copied, a new mutex is made, the nil
\* Colorize, Level and TimeFormat get their defaults
New(o) ==
    /\ opts = [o EXCEPT !.TimeFormat = IF Len(@) = 0 THEN defaultTimeFormat ELSE @]
    /\ handlers = <<[groups |-> <<>>, prefix |-> <<>>, preformatted |-> NilSlice,
                     mu |-> 1, out |-> 1]>>
    /\ origin = <<[op |-> "New", parent |-> 0, arg |-> <<>>]>>

\* Enabled with the threshold itself rejected
EnabledAbove(level) == level > levelVar

\* Enabled(ctx, level)
Enabled(level) == level >= levelVar

\* Handle with the message appended after the source and the bound context
ComposeLineMessageLate(h, r, flag, content) ==
    LET c0 == newComposer(h, content)
        c1 == appendTime(c0, r.time)
        c2 == appendLevel(c1, r.level, flag)
        c4 == appendSource(c2, r.pc)
        c5 == write(addSpace(c4, bufLen(c4) > 0 /\ h.preformatted.len > 0),
                    Bytes(h.preformatted))
        c3 == IF Len(r.msg) > 0
              THEN writeString(addSpace(c5, bufLen(c5) > 0), r.msg)
              ELSE c5
        c6 == IF Len(r.attrs) > 0 THEN walkAttrs(c3, r.attrs) ELSE c3
    IN  writeString(c6, <<NL>>)

\* The buffer Handle has composed when it reaches the lock: content is what
\* the scratch buffer held when it was allocated, flag what Colorize.Bool()
\* returns to appendLevel.
ComposeLine(h, r, flag, content) ==
    LET c0 == newComposer(h, content)
        c1 == appendTime(c0, r.time)
        c2 == appendLevel(c1, r.level, flag)
        c3 == IF Len(r.msg) > 0
              THEN writeString(addSpace(c2, bufLen(c2) > 0), r.msg)
              ELSE c2
        c4 == appendSource(c3, r.pc)
        c5 == write(addSpace(c4, bufLen(c4) > 0 /\ h.preformatted.len > 0),
                    Bytes(h.preformatted))
        c6 == IF Len(r.attrs) > 0 THEN walkAttrs(c5, r.attrs) ELSE c5
    IN  writeString(c6, <<NL>>)

\* Handle, up to the lock: the composer takes a scratch buffer and composes
\* the line in it
HandleBegin(t, h, r, gated, thr) ==
    /\ \E a \in allocBuf :
          LET c == ComposeLine(handlers[h], r, colorize, Bytes2(a, a.bufs[a.b]))
              s == StoreBuf(a, c.buf)
          IN  /\ mem' = s.mem
              /\ bufs' = s.bufs
              /\ pool' = s.pool
              /\ th' = [th EXCEPT ![t] = [IdleCall EXCEPT !.pc = "composed", !.op = "Handle",
                                              !.h = h, !.r = r, !.buf = a.b,
                                              !.gated = gated, !.thr = thr,
                                              !.flag = colorize]]
    /\ UNCHANGED <<opts, goos, colorize, levelVar, handlers, origin, mu>>

\* Handle in two steps, for the callers that run beside Set.  The first
\* step is newComposer: the scratch buffer is taken.
HandleStart(t, h, r) ==
    /\ th[t].pc = "idle"
    /\ \E a \in allocBuf :
          /\ mem' = a.mem
          /\ bufs' = a.bufs
          /\ pool' = a.pool
          /\ th' = [th EXCEPT ![t] = [IdleCall EXCEPT !.pc = "started", !.op = "Handle",
                                                          !.h = h, !.r = r, !.buf = a.b]]
    /\ UNCHANGED <<opts, goos, colorize, levelVar, handlers, origin, mu>>

\* The second step is the composition; appendLevel's Colorize.Bool() is its
\* only read of shared state that changes.
HandleCompose(t) ==
    /\ th[t].pc = "started"
    /\ LET a == [b |-> th[t].buf, bufs |-> bufs, mem |-> mem, pool |-> pool]
           c == ComposeLine(handlers[th[t].h], th[t].r, colorize, Bytes2(a, bufs[th[t].buf]))
           s == StoreBuf(a, c.buf)
       IN  /\ mem' = s.mem
           /\ bufs' = s.bufs
           /\ th' = [th EXCEPT ![t].pc = "composed", ![t].flag = colorize]
    /\ UNCHANGED <<opts, goos, colorize, levelVar, handlers, origin, pool, mu>>

\* Handle called on handler h with record r, with no call of Enabled before it
HandleCall(t, h, r) ==
    /\ th[t].pc = "idle"
    /\ HandleBegin(t, h, r, FALSE, IdleCall.thr)

\* The logger's call (Logger.Info and the like): the record is built and
\* handed to Handle only if Enabled returns true
LoggerLog(t, h, r) ==
    /\ th[t].pc = "idle"
    /\ th' = [th EXCEPT ![t] =
                IF Enabled(r.level)
                THEN [IdleCall EXCEPT !.pc = "enabled", !.op = "Log", !.h = h, !.r = r,
                                      !.gated = TRUE, !.thr = levelVar]
                ELSE [IdleCall EXCEPT !.op = "Log", !.h = h, !.r = r, !.thr = levelVar,
                                      !.ret = "disabled"]]
    /\ UNCHANGED <<opts, goos, colorize, levelVar, handlers, origin, mem, bufs, pool, mu>>

LoggerHandle(t) ==
    /\ th[t].pc = "enabled"
    /\ HandleBegin(t, th[t].h, th[t].r, TRUE, th[t].thr)

\* h.mu.Lock(), then the call of h.out.Write(*cm.buf)
Lock(t) ==
    /\ th[t].pc = "composed"
    /\ handlers[th[t].h].mu \notin mu
    /\ mu' = mu \cup {handlers[th[t].h].mu}
    /\ th' = [th EXCEPT ![t].pc = "writing", ![t].nw = @ + 1]
    /\ UNCHANGED <<opts, goos, colorize, levelVar, handlers, origin, mem, bufs, pool>>

\* Write returns: the stream has taken the bytes, or reports the error e
WriteEnd(t, e) ==
    /\ th[t].pc = "writing"
    /\ th' = [th EXCEPT ![t].pc = "wrote", ![t].err = e]
    /\ UNCHANGED <<opts, goos, colorize, levelVar, handlers, origin, mem, bufs, pool, mu>>

\* An unlock that is skipped when Write reported an error
UnlockOnSuccess(t) ==
    /\ th[t].pc = "wrote"
    /\ mu' = IF th[t].err = "nil" THEN mu \ {handlers[th[t].h].mu} ELSE mu
    /\ th' = [th EXCEPT ![t].pc = "unlocked"]
    /\ UNCHANGED <<opts, goos, colorize, levelVar, handlers, origin, mem, bufs, pool>>

\* The deferred h.mu.Unlock()
Unlock(t) ==
    /\ th[t].pc = "wrote"
    /\ mu' = mu \ {handlers[th[t].h].mu}
    /\ th' = [th EXCEPT ![t].pc = "unlocked"]
    /\ UNCHANGED <<opts, goos, colorize, levelVar, handlers, origin, mem, bufs, pool>>

\* A return that leaves the buffer where it is when Write reported an error
HandleReturnKeepOnError(t) ==
    /\ th[t].pc = "unlocked"
    /\ LET a == [b |-> th[t].buf, bufs |-> bufs, mem |-> mem, pool |-> pool]
           f == IF th[t].err = "nil" THEN free(a) ELSE a
       IN  /\ bufs' = f.bufs
           /\ mem' = f.mem
           /\ pool' = f.pool
    /\ th' = [th EXCEPT ![t] = [IdleCall EXCEPT !.op = "Handle", !.nw = th[t].nw,
                                              !.err = th[t].err, !.ret = th[t].err]]
    /\ UNCHANGED <<opts, goos, colorize, levelVar, handlers, origin, mu>>

\* The deferred cm.destruct(), and Handle returns err
HandleReturn(t) ==
    /\ th[t].pc = "unlocked"
    /\ LET f == free([b |-> th[t].buf, bufs |-> bufs, mem |-> mem, pool |-> pool])
       IN  /\ bufs' = f.bufs
           /\ mem' = f.mem
           /\ pool' = f.pool
    /\ th' = [th EXCEPT ![t] = [IdleCall EXCEPT !.op = "Handle", !.nw = th[t].nw,
                                              !.err = th[t].err, !.ret = th[t].err]]
    /\ UNCHANGED <<opts, goos, colorize, levelVar, handlers, origin, mu>>

\* h2 := *h with a mutex of its own
CopyHandlerOwnMutex(h) == [handlers[h] EXCEPT !.mu = Len(handlers) + 1]

\* h2 := *h: the fields are copied, the mutex and the stream are shared
CopyHandler(h) == handlers[h]

\* h2 := h, so that the derivation writes through to the handler it was called on
DerivedInPlace(h, h2) == Append([handlers EXCEPT ![h] = h2], h2)

\* return &h2: the handlers after the derivation of h2 from h
Derived(h, h2) == Append(handlers, h2)

\* The prefix with the dot written before every name
groupPrefixAlwaysDot(content, prefix, name) == content \o prefix \o <<".">> \o name

\* The scratch buffer of withGroup once the prefix of h2 is in it
groupPrefix(content, prefix, name) ==
    LET b1 == content \o prefix
        b2 == IF Len(b1) > 0 THEN Append(b1, ".") ELSE b1
    IN  b2 \o name

\* withGroup(name)
withGroup(t, h, name, maxHandlers) ==
    /\ th[t].pc = "idle"
    /\ IF name = <<>>
       THEN /\ th' = [th EXCEPT ![t] = [IdleCall EXCEPT !.op = "WithGroup", !.h = h,
                                                        !.arg = name, !.ret = h]]
            /\ UNCHANGED <<handlers, origin, mem, bufs, pool>>
       ELSE /\ Len(handlers) < maxHandlers
            /\ \E a \in allocBuf :
                  LET b3 == groupPrefix(Bytes2(a, a.bufs[a.b]), handlers[h].prefix, name)
                      f  == free(StoreBuf(a, b3))
                      h2 == [CopyHandler(h) EXCEPT !.prefix = b3,
                                                   !.groups = Append(handlers[h].groups, name)]
                  IN  /\ handlers' = Derived(h, h2)
                      /\ origin' = Append(origin, [op |-> "WithGroup", parent |-> h, arg |-> name])
                      /\ mem' = f.mem
                      /\ bufs' = f.bufs
                      /\ pool' = f.pool
                      /\ th' = [th EXCEPT ![t] = [IdleCall EXCEPT !.op = "WithGroup", !.h = h,
                                                      !.arg = name, !.ret = Len(handlers) + 1]]
    /\ UNCHANGED <<opts, goos, colorize, levelVar, mu>>

\* h2.preformatted = make([]byte, len(*cm.buf)); copy(h2.preformatted, *cm.buf):
\* the memory after the copy, and the slice of the new array
MakeCopy(m, content) ==
    [mem |-> Append(m, content), slice |-> [arr |-> Len(m) + 1, len |-> Len(content)]]

\* withAttrs(attrs)
withAttrs(t, h, attrs, maxHandlers) ==
    /\ th[t].pc = "idle"
    /\ IF Len(attrs) = 0
       THEN /\ th' = [th EXCEPT ![t] = [IdleCall EXCEPT !.op = "WithAttrs", !.h = h,
                                                        !.arg = attrs, !.ret = h]]
            /\ UNCHANGED <<handlers, origin, mem, bufs, pool>>
       ELSE /\ Len(handlers) < maxHandlers
            /\ \E a \in allocBuf :
                  LET c0 == newComposer(handlers[h], Bytes2(a, a.bufs[a.b]))
                      c1 == write(c0, Bytes(handlers[h].preformatted))
                      c2 == appendAttrs(c1, attrs, handlers[h].prefix)
                      s  == StoreBuf(a, c2.buf)
                      mc == MakeCopy(s.mem, Bytes2(s, s.bufs[s.b]))
                      f  == free([s EXCEPT !.mem = mc.mem])
                      h2 == [CopyHandler(h) EXCEPT !.preformatted = mc.slice]
                  IN  /\ handlers' = Derived(h, h2)
                      /\ origin' = Append(origin, [op |-> "WithAttrs", parent |-> h, arg |-> attrs])
                      /\ mem' = f.mem
                      /\ bufs' = f.bufs
                      /\ pool' = f.pool
                      /\ th' = [th EXCEPT ![t] = [IdleCall EXCEPT !.op = "WithAttrs", !.h = h,
                                                      !.arg = attrs, !.ret = Len(handlers) + 1]]
    /\ UNCHANGED <<opts, goos, colorize, levelVar, mu>>

\* BoolVar.Set(v)
Set(v) ==
    /\ colorize' = v
    /\ UNCHANGED <<opts, goos, levelVar, handlers, origin, mem, bufs, pool, mu, th>>

\* LevelVar.Set(l)
SetLevel(l) ==
    /\ levelVar' = l
    /\ UNCHANGED <<opts, goos, colorize, handlers, origin, mem, bufs, pool, mu, th>>

----------------------------------------------------------------------------
(* Inputs                                                                  *)

DefaultOptions == [AddSource |-> FALSE, DropTime |-> FALSE, ReplaceAttr |-> "nil",
                   StringLevel |-> "nil", TimeFormat |-> <<>>]

\* The Options values New is called with, and the platform
OptionsSet ==
    {[opts |-> [DefaultOptions EXCEPT !.AddSource = a, !.DropTime = d], goos |-> "linux"] :
        a, d \in BOOLEAN}
    \cup {[opts |-> [DefaultOptions EXCEPT !.StringLevel = "example"], goos |-> "linux"],
          [opts |-> [DefaultOptions EXCEPT !.ReplaceAttr = "drop"], goos |-> "linux"],
          [opts |-> DefaultOptions, goos |-> "windows"]}

KeyK == <<"k">>
KeyS == <<"s">>
KeyX == <<"x">>
GrpA == <<"a">>
GrpB == <<"b">>
GrpAB == <<"a", ".", "b">>

AttrK == Attr(KeyK, Int64Value(7))
AttrS == Attr(KeyS, StringValue(<<"q", " ", "m">>))
AttrV == Attr(KeyS, StringValue(<<"v">>))
AttrX == Attr(KeyX, StringValue(<<"v">>))
AttrG == Attr(<<"g">>, GroupValue(<<AttrK, Attr(<<>>, BoolValue(TRUE))>>))

Messages == {<<>>, <<"m">>, <<"m", NL, "x">>}

\* Records of the line specification: every time and program counter, and
\* the messages, attributes and levels one at a time
Records ==
    {Record(tm, LevelInfo, <<"m">>, pc, <<>>) : tm \in {ZeroTime, TestTime}, pc \in {0, 1}}
    \cup {Record(TestTime, LevelInfo, msg, 0, <<>>) : msg \in Messages}
    \cup {Record(TestTime, lv, <<"m">>, 0, as) :
              lv \in {LevelInfo, LevelError + 4}, as \in {<<AttrK>>, <<AttrS, AttrX, AttrG>>}}
    \cup {Record(TestTime, lv, <<"m">>, 0, <<>>) :
              lv \in {LevelDebug - 1, LevelDebug, LevelWarn - 1, LevelWarn, LevelError}}

GroupNames == {<<>>, GrpA}
AttrLists  == {<<>>, <<AttrV>>}

\* Bound of the line specification
MaxHandlers == 3

----------------------------------------------------------------------------
(* The line specification: one caller, every option, every record          *)

InitState(os, nthreads) ==
    /\ \E o \in os : New(o.opts) /\ goos = o.goos
    /\ colorize = FALSE
    /\ levelVar = LevelInfo
    /\ mem = <<>>
    /\ bufs = <<>>
    /\ pool = EmptyBag
    /\ mu = {}
    /\ th = [t \in Threads(nthreads) |-> IdleCall]

Init == InitState(OptionsSet, 1)

Next ==
    \/ \E h \in 1..Len(handlers), r \in Records : HandleCall(1, h, r)
    \/ Lock(1)
    \/ \E e \in {"nil", "EIO"} : WriteEnd(1, e)
    \/ Unlock(1)
    \/ HandleReturn(1)
    \/ \E h \in 1..Len(handlers), name \in GroupNames : withGroup(1, h, name, MaxHandlers)
    \/ \E h \in 1..Len(handlers), as \in AttrLists : withAttrs(1, h, as, MaxHandlers)
    \/ \E v \in BOOLEAN : Set(v)

Spec == Init /\ [][Next]_vars

----------------------------------------------------------------------------
(* The derivation specification: one caller, default options, every tree   *)
(* of derived handlers                                                     *)

DeriveGroupNames == {<<>>, GrpA, GrpB, GrpAB}
DeriveAttrLists  == {<<>>, <<AttrV, AttrG>>}
DeriveRecords    == {Record(TestTime, LevelInfo, <<"m">>, 0, <<AttrK>>)}

DeriveMaxHandlers == 4

InitDerive == InitState({[opts |-> DefaultOptions, goos |-> "linux"]}, 1)

NextDerive ==
    \/ \E h \in 1..Len(handlers), name \in DeriveGroupNames :
          withGroup(1, h, name, DeriveMaxHandlers)
    \/ \E h \in 1..Len(handlers), as \in DeriveAttrLists :
          withAttrs(1, h, as, DeriveMaxHandlers)
    \/ \E h \in 1..Len(handlers), r \in DeriveRecords : HandleCall(1, h, r)
    \/ Lock(1)
    \/ WriteEnd(1, "nil")
    \/ Unlock(1)
    \/ HandleReturn(1)

SpecDerive == InitDerive /\ [][NextDerive]_vars

----------------------------------------------------------------------------
(* The concurrent specification: several callers on a handler and the      *)
(* handlers derived from it                                                *)

ConcRecords == {Record(TestTime, LevelInfo, <<"m">>, 0, <<>>)}

NThreads        == 2
ConcMaxHandlers == 2

InitConc == InitState({[opts |-> DefaultOptions, goos |-> "linux"]}, NThreads)

NextConc ==
    \E t \in Threads(NThreads) :
        \/ \E h \in 1..Len(handlers) : withGroup(t, h, GrpA, ConcMaxHandlers)
        \/ \E h \in 1..Len(handlers), r \in ConcRecords : HandleCall(t, h, r)
        \/ Lock(t)
        \/ \E e \in {"nil", "EIO"} : WriteEnd(t, e)
        \/ Unlock(t)
        \/ HandleReturn(t)

SpecConc == InitConc /\ [][NextConc]_vars

----------------------------------------------------------------------------
(* The gate specification: several loggers on one handler, and callers of  *)
(* Handle that do not ask Enabled, while the threshold is changed          *)

GateRecords == {Record(TestTime, lv, <<"m">>, 0, <<>>) : lv \in {LevelDebug, LevelInfo}}
GateLevels  == {LevelDebug, LevelInfo}

GateThreads == 2

InitGate == InitState({[opts |-> DefaultOptions, goos |-> "linux"]}, GateThreads)

NextGate ==
    \E t \in Threads(GateThreads) :
        \/ \E r \in GateRecords : LoggerLog(t, 1, r)
        \/ LoggerHandle(t)
        \/ \E r \in GateRecords : HandleCall(t, 1, r)
        \/ Lock(t)
        \/ WriteEnd(t, "nil")
        \/ Unlock(t)
        \/ HandleReturn(t)
        \/ \E l \in GateLevels : SetLevel(l)

SpecGate == InitGate /\ [][NextGate]_vars

----------------------------------------------------------------------------
(* The flag specification: several callers of Handle beside callers of     *)
(* Colorize.Set, on either platform                                        *)

FlagRecords == {Record(TestTime, LevelInfo, <<"m">>, 0, <<>>)}

FlagThreads == 2

InitFlag == InitState({[opts |-> DefaultOptions, goos |-> g] : g \in {"linux", "windows"}},
                      FlagThreads)

NextFlag ==
    \/ \E t \in Threads(FlagThreads) :
          \/ \E r \in FlagRecords : HandleStart(t, 1, r)
          \/ HandleCompose(t)
          \/ Lock(t)
          \/ WriteEnd(t, "nil")
          \/ Unlock(t)
          \/ HandleReturn(t)
    \/ \E v \in BOOLEAN : Set(v)

SpecFlag == InitFlag /\ [][NextFlag]_vars

----------------------------------------------------------------------------
(* The attribute specification: one caller, attributes of every shape in   *)
(* records and in WithAttrs, with and without ReplaceAttr                  *)

AttrEmptyGroup     == Attr(<<"e">>, GroupValue(<<>>))
AttrLazy           == Attr(<<"l">>, LogValuerValue(StringValue(<<"v">>)))
AttrLazyZero       == Attr(<<>>, LogValuerValue(ZeroValue))
AttrLazyEmptyGroup == Attr(<<"z">>, LogValuerValue(GroupValue(<<>>)))
AttrNested         == Attr(<<"g">>, GroupValue(<<Attr(<<"h">>, GroupValue(<<AttrK>>)),
                                                 ZeroAttr, AttrEmptyGroup>>))
AttrInline         == Attr(<<>>, GroupValue(<<AttrK>>))

\* String values: empty, plain, and one for each byte that matters to
\* needsQuoting
StringSamples ==
    {<<>>, <<"v">>, <<"q", SP, "m">>, <<"a", "=", "b">>, <<"a", BSL, "b">>,
     <<"a", DQ, "b">>, <<"a", NL>>, <<ESC, "a">>, <<"a", DEL, "b">>,
     <<"a", "NBSP">>, <<"BAD">>, <<"e'", "a">>}

AttrRecordLists ==
    {<<Attr(KeyS, StringValue(s))>> : s \in StringSamples}
    \cup {<<AttrK, ZeroAttr, AttrS>>, <<AttrEmptyGroup, AttrK>>, <<AttrLazyZero>>,
          <<AttrK, AttrLazyEmptyGroup>>, <<AttrLazy, AttrX>>, <<AttrG>>,
          <<AttrNested>>, <<AttrInline, AttrX>>}

AttrRecords == {Record(TestTime, LevelInfo, <<"m">>, 0, as) : as \in AttrRecordLists}

AttrBoundLists == {<<AttrV, ZeroAttr>>, <<AttrEmptyGroup>>, <<AttrNested, AttrLazy>>}

AttrMaxHandlers == 2

InitAttr ==
    InitState({[opts |-> [DefaultOptions EXCEPT !.ReplaceAttr = ra], goos |-> "linux"] :
                  ra \in {"nil", "drop", "redact"}}, 1)

NextAttr ==
    \/ \E h \in 1..Len(handlers) : withGroup(1, h, GrpA, AttrMaxHandlers)
    \/ \E h \in 1..Len(handlers), as \in AttrBoundLists : withAttrs(1, h, as, AttrMaxHandlers)
    \/ \E h \in 1..Len(handlers), r \in AttrRecords : HandleCall(1, h, r)
    \/ Lock(1)
    \/ WriteEnd(1, "nil")
    \/ Unlock(1)
    \/ HandleReturn(1)

SpecAttr == InitAttr /\ [][NextAttr]_vars

----------------------------------------------------------------------------
(* The release specification: one caller, records of ordinary and of large *)
(* size, the derivations, their early returns, and writes that fail        *)

PoolRecords == {Record(TestTime, LevelInfo, msg, 0, <<>>) : msg \in {<<"m">>, <<"BIG">>}}

ReleaseMaxHandlers == 2

InitRelease == InitState({[opts |-> DefaultOptions, goos |-> "linux"]}, 1)

NextRelease ==
    \/ \E h \in 1..Len(handlers), name \in {<<>>, GrpA} :
          withGroup(1, h, name, ReleaseMaxHandlers)
    \/ \E h \in 1..Len(handlers), attrs \in {<<>>, <<AttrV>>, <<AttrG>>} :
          withAttrs(1, h, attrs, ReleaseMaxHandlers)
    \/ \E h \in 1..Len(handlers), r \in PoolRecords : HandleCall(1, h, r)
    \/ Lock(1)
    \/ \E e \in {"nil", "EIO"} : WriteEnd(1, e)
    \/ Unlock(1)
    \/ HandleReturn(1)

SpecRelease == InitRelease /\ [][NextRelease]_vars

----------------------------------------------------------------------------
(* The pool specification: several callers of Handle with records of       *)
(* ordinary and of large size                                              *)

PoolThreads == 2

InitPool == InitState({[opts |-> DefaultOptions, goos |-> "linux"]}, PoolThreads)

NextPool ==
    \E t \in Threads(PoolThreads) :
        \/ \E r \in PoolRecords : HandleCall(t, 1, r)
        \/ Lock(t)
        \/ \E e \in {"nil", "EIO"} : WriteEnd(t, e)
        \/ Unlock(t)
        \/ HandleReturn(t)

SpecPool == InitPool /\ [][NextPool]_vars

----------------------------------------------------------------------------
(* Properties                                                              *)

\* The threads inside Handle's call of Write, and the bytes handed to it
Writing(t) == th[t].pc = "writing"
Line(t)    == Bytes(bufs[th[t].buf])
Handler(t) == handlers[th[t].h]

\* What a stage of Handle appends to an empty buffer
TimeStage(t)   == appendTime(newComposer(Handler(t), <<>>), th[t].r.time).buf
LevelStage(t)  == appendLevel(newComposer(Handler(t), <<>>), th[t].r.level, th[t].flag).buf
SourceStage(t) == appendSource(newComposer(Handler(t), <<>>), th[t].r.pc).buf
BoundStage(t)  == Bytes(Handler(t).preformatted)
AttrsStage(t)  == walkAttrs(newComposer(Handler(t), <<>>), th[t].r.attrs).buf

\* The non-empty texts of ss, in order, with one space between neighbours
RECURSIVE JoinNonEmpty(_)
JoinNonEmpty(ss) ==
    IF ss = <<>> THEN <<>>
    ELSE LET rest == JoinNonEmpty(Tail(ss))
         IN  IF Head(ss) = <<>> THEN rest
             ELSE IF rest = <<>> THEN Head(ss)
             ELSE Head(ss) \o <<SP>> \o rest

\* C1: the bytes handed to Write are exactly one line: they end with a
\* newline and hold no other newline.
C1_ExactlyOneLine ==
    \A t \in DOMAIN th :
        Writing(t) =>
            /\ Len(Line(t)) > 0
            /\ Line(t)[Len(Line(t))] = NL
            /\ CountByte(Line(t), NL) = 1

\* C2: the line starts with the timestamp if and only if the record's time
\* is not zero and DropTime is false; otherwise it starts with the level
\* token, with no space before it.
C2_TimestampIff ==
    \A t \in DOMAIN th :
        Writing(t) =>
            IF th[t].r.time # ZeroTime /\ ~opts.DropTime
            THEN StartsWith(Line(t), AppendFormat(<<>>, th[t].r.time, opts.TimeFormat)
                                       \o <<SP>> \o LevelStage(t))
            ELSE StartsWith(Line(t), LevelStage(t))

\* The token source=FILE:LINE of a program counter
SourceToken(pc) ==
    SourceKey \o <<"=">> \o FrameOf(pc).File \o <<":">> \o Itoa(FrameOf(pc).Line)

\* C3: the line holds a source token if and only if AddSource is true and
\* the record's program counter is not zero, and the token is then
\* source=FILE:LINE, placed after the message and before the bound context.
C3_SourceIff ==
    \A t \in DOMAIN th :
        Writing(t) =>
            IF opts.AddSource /\ th[t].r.pc # 0
            THEN Line(t) = JoinNonEmpty(<<TimeStage(t), LevelStage(t), th[t].r.msg,
                                          SourceToken(th[t].r.pc), BoundStage(t),
                                          AttrsStage(t)>>) \o <<NL>>
            ELSE ~Contains(Line(t), SourceKey \o <<"=">>)

\* C4: the line is the stages in the order timestamp, level, message,
\* source, bound context, record attributes, each present stage once and
\* one space between neighbours, an absent stage adding nothing, and the
\* newline last.
C4_StageOrder ==
    \A t \in DOMAIN th :
        Writing(t) =>
            Line(t) = JoinNonEmpty(<<TimeStage(t), LevelStage(t), th[t].r.msg,
                                     SourceStage(t), BoundStage(t), AttrsStage(t)>>)
                      \o <<NL>>

\* A Write whose line holds all six stages
C4_Witness ==
    \E t \in DOMAIN th :
        /\ Writing(t)
        /\ TimeStage(t) # <<>> /\ th[t].r.msg # <<>> /\ SourceStage(t) # <<>>
        /\ BoundStage(t) # <<>> /\ AttrsStage(t) # <<>>
        /\ th[t].r.attrs = <<AttrS, AttrX, AttrG>>

\* What a handler is to its callers: its groups, its prefix and the bytes
\* of its bound context
HandlerView(i) == [groups |-> handlers[i].groups, prefix |-> handlers[i].prefix,
                   preformatted |-> Bytes(handlers[i].preformatted)]

\* C5: no step changes the groups, the prefix or the bound-context bytes of
\* a handler that exists; WithGroup and WithAttrs only add handlers.
C5_DerivationKeepsHandlers ==
    [][\A i \in 1..Len(handlers) :
          /\ i <= Len(handlers')
          /\ HandlerView(i)' = HandlerView(i)]_vars

\* A handler with two children, one of them with a child of its own
C5_Witness ==
    /\ Len(handlers) = 4
    /\ origin[2].parent = 1 /\ origin[3].parent = 1 /\ origin[4].parent = 2
    /\ origin[2].op = "WithAttrs" /\ origin[3].op = "WithAttrs" /\ origin[4].op = "WithGroup"

\* The tokens of a line or bound context: its parts between the spaces
\* that are outside quoted values
RECURSIVE SplitTokens(_, _, _)
SplitTokens(s, cur, quoted) ==
    IF s = <<>> THEN (IF cur = <<>> THEN <<>> ELSE <<cur>>)
    ELSE IF quoted /\ Head(s) = BSL /\ Len(s) > 1
    THEN SplitTokens(Tail(Tail(s)), cur \o SubSeq(s, 1, 2), quoted)
    ELSE IF Head(s) = DQ THEN SplitTokens(Tail(s), Append(cur, DQ), ~quoted)
    ELSE IF Head(s) = SP /\ ~quoted THEN <<cur>> \o SplitTokens(Tail(s), <<>>, FALSE)
    ELSE SplitTokens(Tail(s), Append(cur, Head(s)), quoted)

\* The key of a token: what precedes its first "="
RECURSIVE TokenKey(_)
TokenKey(tok) ==
    IF tok = <<>> \/ Head(tok) = "=" THEN <<>> ELSE <<Head(tok)>> \o TokenKey(Tail(tok))

\* The key is the prefix, or the prefix, a dot and more
KeyUnder(key, prefix) ==
    prefix = <<>> \/ key = prefix \/ StartsWith(key, prefix \o <<".">>)

\* The number of leaf attributes an attribute list flattens to
RECURSIVE Leaves(_)
Leaves(attrs) ==
    IF attrs = <<>> THEN 0
    ELSE (IF Head(attrs).val.kind = "Group" THEN Leaves(Head(attrs).val.attrs) ELSE 1)
         + Leaves(Tail(attrs))

\* The line of the record k=7 on the handler
\* h.WithGroup("a").WithAttrs(s=v, g=Group(k=7, ""=true)).WithGroup("b")
ScenarioLine ==
    <<"2", "0", "2", "3", "-", "0", "9", "-", "1", "0", " ",
      "2", "0", ":", "0", "0", ":", "0", "0", ".", "0", "0", "0", " ",
      "I", "N", "F", "O", " ", "m", " ",
      "a", ".", "s", "=", "v", " ",
      "a", ".", "g", ".", "k", "=", "7", " ",
      "a", ".", "g", "=", "t", "r", "u", "e", " ",
      "a", ".", "b", ".", "k", "=", "7", NL>>

\* The handler of the scenario
IsScenarioHandler(k) ==
    /\ origin[k].op = "WithGroup" /\ origin[k].arg = GrpB
    /\ LET j == origin[k].parent
       IN  /\ origin[j].op = "WithAttrs" /\ origin[j].arg = <<AttrV, AttrG>>
           /\ LET i == origin[j].parent
              IN  origin[i].op = "WithGroup" /\ origin[i].arg = GrpA /\ origin[i].parent = 1

\* C6: a handler made by WithGroup has the bound-context bytes of its
\* parent; a handler made by WithAttrs has its parent's bytes followed by
\* one token for each leaf attribute, each keyed under the parent's prefix;
\* and the line of h.WithGroup("a").WithAttrs(s=v, g=Group(k=7, ""=true))
\* .WithGroup("b") for the record k=7 is "... m a.s=v a.g.k=7 a.g=true a.b.k=7".
C6_BoundKeysKeepPrefix ==
    /\ \A k \in 2..Len(handlers) :
          LET p    == origin[k].parent
              pre  == Bytes(handlers[k].preformatted)
              ppre == Bytes(handlers[p].preformatted)
              old  == SplitTokens(ppre, <<>>, FALSE)
              new  == SplitTokens(pre, <<>>, FALSE)
          IN  IF origin[k].op = "WithGroup" THEN pre = ppre
              ELSE /\ StartsWith(pre, ppre)
                   /\ Len(new) = Len(old) + Leaves(origin[k].arg)
                   /\ \A n \in 1..Len(new) :
                         IF n <= Len(old) THEN new[n] = old[n]
                         ELSE /\ KeyUnder(TokenKey(new[n]), handlers[p].prefix)
                              /\ TokenKey(new[n]) # handlers[p].prefix
    /\ \A t \in DOMAIN th :
          Writing(t) /\ IsScenarioHandler(th[t].h) => Line(t) = ScenarioLine

\* The scenario's line is being written
C6_Witness ==
    \E t \in DOMAIN th : Writing(t) /\ IsScenarioHandler(th[t].h)

\* The names of a group chain joined by dots
RECURSIVE JoinDot(_)
JoinDot(names) ==
    IF names = <<>> THEN <<>>
    ELSE IF Len(names) = 1 THEN Head(names)
    ELSE Head(names) \o <<".">> \o JoinDot(Tail(names))

\* C7: the prefix of every handler is the dot-join of its group chain, no
\* group of a chain is the empty name, WithGroup("") returns the handler
\* it was called on, and the chain a, b has the prefix of the chain a.b.
C7_PrefixIsJoinOfGroups ==
    /\ \A k \in 1..Len(handlers) :
          /\ handlers[k].prefix = JoinDot(handlers[k].groups)
          /\ \A n \in 1..Len(handlers[k].groups) : handlers[k].groups[n] # <<>>
          /\ handlers[k].groups = <<>> => handlers[k].prefix = <<>>
          /\ LET p == handlers[k].prefix
             IN  p # <<>> =>
                   /\ p[1] # "." /\ p[Len(p)] # "."
                   /\ \A n \in 1..(Len(p) - 1) : ~(p[n] = "." /\ p[n + 1] = ".")
    /\ \A j, k \in 1..Len(handlers) :
          handlers[j].groups = <<GrpA, GrpB>> /\ handlers[k].groups = <<GrpAB>>
              => handlers[j].prefix = handlers[k].prefix
    /\ \A t \in DOMAIN th :
          th[t].op = "WithGroup" /\ th[t].arg = <<>> => th[t].ret = th[t].h

\* The chains a, b and a.b both exist, and the last call was WithGroup("")
C7_Witness ==
    /\ \E j, k \in 1..Len(handlers) :
          handlers[j].groups = <<GrpA, GrpB>> /\ handlers[k].groups = <<GrpAB>>
    /\ \E t \in DOMAIN th : th[t].op = "WithGroup" /\ th[t].arg = <<>> /\ th[t].h = 4

\* The threads that are between Lock and Unlock
InLock(t) == th[t].pc \in {"writing", "wrote"}

\* C8: every handler has the mutex and the stream of the handler New made;
\* at most one thread is inside Write; a thread inside Write holds the lock,
\* is in the only Write of its call, and hands to it the whole line of its
\* record, which no other call has touched.
C8_OneWriterWholeLine ==
    /\ \A k \in 1..Len(handlers) :
          handlers[k].mu = handlers[1].mu /\ handlers[k].out = handlers[1].out
    /\ Cardinality({t \in DOMAIN th : Writing(t)}) <= 1
    /\ Cardinality({t \in DOMAIN th : InLock(t)}) <= 1
    /\ \A t \in DOMAIN th :
          Writing(t) =>
              /\ Handler(t).mu \in mu
              /\ th[t].nw = 1
              /\ Line(t) = ComposeLine(Handler(t), th[t].r, th[t].flag, <<>>).buf
              /\ Line(t)[Len(Line(t))] = NL

\* A call on a derived handler is inside Write while a call on the handler
\* New made has composed its line and waits for the lock
C8_Witness ==
    \E t, u \in DOMAIN th :
        /\ Writing(t) /\ th[t].h = 2 /\ origin[2].parent = 1
        /\ th[u].pc = "composed" /\ th[u].h = 1

\* C9: a call of Handle that has returned has returned what its Write
\* returned, after one Write; the lock is held exactly while some call is
\* between Lock and Unlock, so after a failed Write it is free again.
C9_WriteErrorReturned ==
    /\ \A t \in DOMAIN th :
          /\ th[t].op = "Handle" /\ th[t].pc = "idle" =>
                th[t].ret = th[t].err /\ th[t].nw = 1
          /\ th[t].pc \in {"wrote", "unlocked"} => th[t].nw = 1
    /\ mu = {Handler(t).mu : t \in {u \in DOMAIN th : InLock(u)}}

\* A call has returned the error of its Write, and another call, on a
\* derived handler, is inside Write
C9_Witness ==
    \E t, u \in DOMAIN th :
        /\ th[t].op = "Handle" /\ th[t].pc = "idle" /\ th[t].ret = "EIO"
        /\ Writing(u) /\ th[u].h = 2

\* The calls of Handle that have composed a line
Composed(t) == th[t].pc \in {"composed", "writing", "wrote", "unlocked"}

Colorized(t) == th[t].flag /\ goos # "windows"

\* The color of a level: white below INFO, green below WARN, yellow below
\* ERROR, red from ERROR on
BracketColor(lv) ==
    CASE lv < 0            -> <<ESC, "[", "9", "7", "m">>
      [] 0 <= lv /\ lv < 4 -> <<ESC, "[", "3", "2", "m">>
      [] 4 <= lv /\ lv < 8 -> <<ESC, "[", "3", "3", "m">>
      [] lv >= 8           -> <<ESC, "[", "3", "1", "m">>

\* The level token of a colorized line
ColorToken(t) ==
    BracketColor(th[t].r.level) \o optionalStringLevel(th[t].r.level)
        \o <<ESC, "[", "0", "m">>

\* C11: in a colorized line the level token is the color of the level's
\* bracket, the level string and the reset; the token is followed by a
\* space or the newline, and the line holds no other escape byte.
C11_LevelTokenColor ==
    \A t \in DOMAIN th :
        Writing(t) /\ Colorized(t) =>
            /\ LevelStage(t) = ColorToken(t)
            /\ \/ Contains(Line(t), ColorToken(t) \o <<SP>>)
               \/ Contains(Line(t), ColorToken(t) \o <<NL>>)
            /\ CountByte(Line(t), ESC) = 2

\* A colorized line of level ERROR+4 with attributes after the level token
C11_Witness ==
    \E t \in DOMAIN th :
        /\ Writing(t) /\ Colorized(t)
        /\ th[t].r.level = LevelError + 4
        /\ Contains(Line(t), ConsoleColorRed \o <<"E", "R", "R", "O", "R", "+", "4">>
                                \o ConsoleColorReset \o <<SP, "m", SP>>)

\* The line of a call is colorized whole or not at all, as its flag says
FlagDecidesColor(t) ==
    Composed(t) =>
        IF Colorized(t)
        THEN /\ Contains(Line(t), ColorToken(t))
             /\ CountByte(Line(t), ESC) = 2
        ELSE CountByte(Line(t), ESC) = 0

\* C12: the composition of a call reads the flag once, as it is at that
\* moment, whatever Set did before and does after; the line has the color
\* and the reset when the value read is true and the platform is not
\* Windows, and no escape byte otherwise.
C12_ColorIffFlagRead ==
    [][\A t \in DOMAIN th :
          /\ th[t].pc = "started" /\ th'[t].pc = "composed" => th'[t].flag = colorize
          /\ Composed(t) /\ Composed(t)' => th'[t].flag = th[t].flag
          /\ FlagDecidesColor(t)']_vars

\* A colorized line is inside Write after Set(false), and the call that
\* composed after that Set has a line without color
C12_Witness ==
    \E t, u \in DOMAIN th :
        /\ Writing(t) /\ Colorized(t) /\ CountByte(Line(t), ESC) = 2
        /\ ~colorize
        /\ th[u].pc = "composed" /\ ~th[u].flag /\ CountByte(Line(u), ESC) = 0

\* An attribute that resolves to the zero Attr or to a group without members
IsEmptyAttr(a) ==
    LET v == Resolve(a.val)
    IN  \/ a.key = <<>> /\ v.kind = "Any" /\ v.nil
        \/ v.kind = "Group" /\ v.attrs = <<>>

\* The attribute list without such attributes, at every depth
RECURSIVE StripEmpty(_)
StripEmpty(attrs) ==
    IF attrs = <<>> THEN <<>>
    ELSE LET a == Head(attrs)
             v == Resolve(a.val)
         IN  IF IsEmptyAttr(a) THEN StripEmpty(Tail(attrs))
             ELSE IF v.kind = "Group"
             THEN <<Attr(a.key, GroupValue(StripEmpty(v.attrs)))>> \o StripEmpty(Tail(attrs))
             ELSE <<a>> \o StripEmpty(Tail(attrs))

\* C13: the line of a record is the line of the record without its
\* attributes that resolve to the zero Attr or to a group without members,
\* and the bound context WithAttrs makes is the one it makes without them.
C13_EmptyAttrsAddNothing ==
    /\ \A t \in DOMAIN th :
          Writing(t) =>
              Line(t) = ComposeLine(Handler(t), [th[t].r EXCEPT !.attrs = StripEmpty(@)],
                                    th[t].flag, <<>>).buf
    /\ \A k \in 2..Len(handlers) :
          origin[k].op = "WithAttrs" =>
              LET p == handlers[origin[k].parent]
              IN  Bytes(handlers[k].preformatted) =
                      appendAttrs(newComposer(p, Bytes(p.preformatted)),
                                  StripEmpty(origin[k].arg), p.prefix).buf

\* The calls of ReplaceAttr made for the line of a call: the groups and the
\* attribute of each
ReplaceAttrCalls(t) == ComposeLine(Handler(t), th[t].r, th[t].flag, <<>>).ra

\* C14: every attribute handed to ReplaceAttr is no group and has a
\* resolved value.
C14_ReplaceAttrSeesResolvedLeaves ==
    \A t \in DOMAIN th :
        Writing(t) =>
            \A n \in 1..Len(ReplaceAttrCalls(t)) :
                ReplaceAttrCalls(t)[n].attr.val.kind \notin {"Group", "LogValuer"}

\* A string that is empty or holds a space, "=", an ASCII control character
\* (0x00-0x1F, 0x7F), a double quote, a rune that is whitespace or not
\* printable, or an invalid encoding
MustBeQuoted(s) ==
    \/ s = <<>>
    \/ \E i \in 1..Len(s) : s[i] \in {SP, "=", DQ, NL, ESC, DEL, "NBSP", "BAD"}

\* C15: a string value is written in quoted form when it is empty or holds
\* a space, "=", an ASCII control character (0x7F among them), a double
\* quote, a whitespace or non-printable rune or an invalid encoding, and
\* verbatim otherwise; needsQuoting is true of exactly these strings.
C15_QuotedIffNeedsQuoting ==
    \A t \in DOMAIN th :
        /\ Writing(t) /\ opts.ReplaceAttr = "nil"
        /\ Len(th[t].r.attrs) = 1 /\ th[t].r.attrs[1].val.kind = "String"
        => LET a == th[t].r.attrs[1]
               s == a.val.s
           IN  /\ needsQuoting(s) <=> MustBeQuoted(s)
               /\ AttrsStage(t) =
                      mergePrefWithKey(Handler(t).prefix, a.key) \o <<"=">>
                      \o (IF MustBeQuoted(s) THEN AppendQuote(<<>>, s) ELSE s)

\* As MustBeQuoted, with 0x7F not among the control characters
MustBeQuotedSafeSet(s) ==
    \/ s = <<>>
    \/ \E i \in 1..Len(s) : s[i] \in {SP, "=", DQ, NL, ESC, "NBSP", "BAD"}

\* C15 (amended): a string value is written in quoted form when it is
\* empty or holds a space, "=", an ASCII control character 0x00-0x1F, a
\* double quote, a whitespace or non-printable rune or an invalid encoding,
\* and verbatim otherwise, 0x7F and the backslash included; needsQuoting is
\* true of exactly these strings.
C15_QuotedIffNeedsQuotingSafeSet ==
    \A t \in DOMAIN th :
        /\ Writing(t) /\ opts.ReplaceAttr = "nil"
        /\ Len(th[t].r.attrs) = 1 /\ th[t].r.attrs[1].val.kind = "String"
        => LET a == th[t].r.attrs[1]
               s == a.val.s
           IN  /\ needsQuoting(s) <=> MustBeQuotedSafeSet(s)
               /\ AttrsStage(t) =
                      mergePrefWithKey(Handler(t).prefix, a.key) \o <<"=">>
                      \o (IF MustBeQuotedSafeSet(s) THEN AppendQuote(<<>>, s) ELSE s)

\* A value with the byte 0x7F is written verbatim under a group prefix
C15_Witness ==
    \E t \in DOMAIN th :
        /\ Writing(t) /\ opts.ReplaceAttr = "nil"
        /\ th[t].r.attrs = <<Attr(KeyS, StringValue(<<"a", DEL, "b">>))>>
        /\ Contains(Line(t), <<SP, "a", ".", "s", "=", "a", DEL, "b", NL>>)

\* The join of a prefix and a key: both with a dot between them, or the
\* one that is not empty
JoinKey(prefix, key) ==
    IF prefix # <<>> /\ key # <<>> THEN prefix \o <<".">> \o key
    ELSE IF prefix # <<>> THEN prefix
    ELSE key

\* The keys of the tokens an attribute list is to give under a prefix, the
\* members of a group under the join of the prefix and the group's key
RECURSIVE ExpectedKeys(_, _)
ExpectedKeys(attrs, prefix) ==
    IF attrs = <<>> THEN <<>>
    ELSE LET a == Head(attrs)
             v == Resolve(a.val)
         IN  (IF IsEmptyAttr(a) THEN <<>>
              ELSE IF v.kind = "Group" THEN ExpectedKeys(v.attrs, JoinKey(prefix, a.key))
              ELSE <<JoinKey(prefix, a.key)>>)
             \o ExpectedKeys(Tail(attrs), prefix)

\* The keys of the last n tokens of a text
LastKeys(text, n) ==
    LET toks == SplitTokens(text, <<>>, FALSE)
    IN  [i \in 1..n |-> TokenKey(toks[Len(toks) - n + i])]

\* A key has no dot at either end
NoOuterDot(key) == key = <<>> \/ (key[1] # "." /\ key[Len(key)] # ".")

\* C19: the keys of the tokens of a record's attributes, and of the tokens
\* WithAttrs adds to the bound context, are the joins of prefix and key at
\* every depth, one token for each leaf, an empty key under a prefix giving
\* the prefix; no key gets a dot at either end.
C19_TokenKeyIsJoin ==
    opts.ReplaceAttr = "nil" =>
        /\ \A t \in DOMAIN th :
              Writing(t) =>
                  LET want == ExpectedKeys(th[t].r.attrs, Handler(t).prefix)
                      text == SubSeq(Line(t), 1, Len(Line(t)) - 1)
                  IN  /\ Len(SplitTokens(text, <<>>, FALSE)) >= Len(want)
                      /\ LastKeys(text, Len(want)) = want
                      /\ \A n \in 1..Len(want) : NoOuterDot(want[n])
        /\ \A k \in 2..Len(handlers) :
              origin[k].op = "WithAttrs" =>
                  LET want == ExpectedKeys(origin[k].arg, handlers[origin[k].parent].prefix)
                      text == Bytes(handlers[k].preformatted)
                  IN  /\ Len(SplitTokens(text, <<>>, FALSE)) >= Len(want)
                      /\ LastKeys(text, Len(want)) = want

\* Under the prefix a, the group g with the members k=7 and ""=true is
\* written as a.g.k=7 a.g=true
C19_Witness ==
    \E t \in DOMAIN th :
        /\ Writing(t) /\ opts.ReplaceAttr = "nil"
        /\ th[t].r.attrs = <<AttrG>>
        /\ Contains(Line(t), <<SP, "a", ".", "g", ".", "k", "=", "7", SP,
                               "a", ".", "g", "=", "t", "r", "u", "e", NL>>)

\* C16: a scratch buffer a call holds is in the hands of that call alone and
\* is not in the pool, from the composition through the Write to the
\* deferred Unlock; a call of Handle holds its buffer at each of these
\* steps, so the buffer goes back only after Write has returned.
C16_BufferHeldExclusively ==
    /\ \A t \in DOMAIN th :
          Composed(t) => th[t].buf \in 1..Len(bufs)
    /\ \A t \in DOMAIN th :
          th[t].buf # 0 =>
              /\ ~BagIn(th[t].buf, pool)
              /\ \A u \in DOMAIN th \ {t} : th[u].buf # th[t].buf

\* After a derivation has used a buffer and put it back, a call is inside
\* Write while another call has composed its line in a buffer of its own
C16_Witness ==
    \E t, u \in DOMAIN th :
        /\ Writing(t) /\ th[u].pc = "composed"
        /\ th[t].buf # th[u].buf
        /\ Len(handlers) > 1

\* The calls that hold the scratch buffer b
Holders(b) == {t \in DOMAIN th : th[t].buf = b}

\* C17: a call that has returned holds no buffer, whether it wrote, failed
\* to write or returned early; every buffer is held by one call or is in
\* the pool once, never both and never twice, and the only buffers that are
\* neither are those free left to the collector for their capacity.
C17_ReleasedOnEveryPath ==
    /\ \A t \in DOMAIN th : th[t].pc = "idle" => th[t].buf = 0
    /\ \A b \in 1..Len(bufs) :
          /\ Cardinality(Holders(b)) + CopiesIn(b, pool) <= 1
          /\ Holders(b) = {} /\ ~BagIn(b, pool) => bufs[b].cap > maxBufferSize

\* A call of Handle has returned the error of its Write, no call holds a
\* buffer, and the buffer is in the pool
C17_Witness ==
    /\ \E t \in DOMAIN th : th[t].op = "Handle" /\ th[t].pc = "idle" /\ th[t].ret = "EIO"
    /\ Held = {}
    /\ \E b \in 1..Len(bufs) : CopiesIn(b, pool) = 1

\* C18: a buffer in the pool has length 0 and a capacity of at most
\* maxBufferSize, and the line a call has composed is the line of its record
\* alone: nothing of what the buffer held before is in it.
C18_PoolInvariant ==
    /\ \A b \in BagToSet(pool) :
          /\ b \in 1..Len(bufs)
          /\ bufs[b].len = 0
          /\ bufs[b].cap <= maxBufferSize
    /\ \A t \in DOMAIN th :
          Composed(t) =>
              Line(t) = ComposeLine(Handler(t), th[t].r, th[t].flag, <<>>).buf

\* Two calls of Handle have returned: the buffer that grew past
\* maxBufferSize with its record has been left to the collector, the other
\* is in the pool, cut to length 0
C18_Witness ==
    /\ \A t \in DOMAIN th : th[t].op = "Handle" /\ th[t].pc = "idle"
    /\ \E g \in Garbage : bufs[g].cap > maxBufferSize /\ bufs[g].len > 0
    /\ \E b \in BagToSet(pool) : bufs[b].len = 0 /\ bufs[b].cap = initialBufferSize

====
